---------------------------- MODULE Spec2Model ----------------------------
(***************************************************************************)
(* A model of the MAGDA DSL parser (parsers/go/parser.go).                 *)
(*                                                                         *)
(* A Parser holds a track counter and a reference to the DAW state.        *)
(* SetState replaces the state; ParseDSL translates a program text into a  *)
(* list of action records.  Program texts are sequences of one-character   *)
(* strings, so that the segmenter and the parameter extractor scan them    *)
(* character by character as the Go code does.                             *)
(***************************************************************************)
EXTENDS Integers, Sequences, FiniteSets, TLC

(***************************************************************************)
(* Text: a Go string is a sequence of one-character strings.               *)
(***************************************************************************)
\* unicode.IsSpace restricted to the characters the inputs use
IsSpace(ch) == ch \in {" ", "\n", "\t", "\r"}

RECURSIVE TrimLeft(_)
TrimLeft(s) ==
    IF s # <<>> /\ IsSpace(Head(s)) THEN TrimLeft(Tail(s)) ELSE s

RECURSIVE TrimRight(_)
TrimRight(s) ==
    IF s # <<>> /\ IsSpace(s[Len(s)]) THEN TrimRight(SubSeq(s, 1, Len(s) - 1)) ELSE s

\* strings.TrimSpace
TrimSpace(s) == TrimRight(TrimLeft(s))

\* strings.HasPrefix
HasPrefix(s, prefix) ==
    /\ Len(s) >= Len(prefix)
    /\ \A i \in 1..Len(prefix) : s[i] = prefix[i]

\* strings.Index(s, ch) for a one-character pattern; 0-based, -1 when absent
Index(s, ch) ==
    IF \E i \in 1..Len(s) : s[i] = ch
    THEN (CHOOSE i \in 1..Len(s) : s[i] = ch /\ \A j \in 1..(i - 1) : s[j] # ch) - 1
    ELSE -1

\* strings.LastIndex(s, ch) for a one-character pattern; 0-based, -1 when absent
LastIndex(s, ch) ==
    IF \E i \in 1..Len(s) : s[i] = ch
    THEN (CHOOSE i \in 1..Len(s) : s[i] = ch /\ \A j \in (i + 1)..Len(s) : s[j] # ch) - 1
    ELSE -1

\* the Go slice expression s[lo:hi] (0-based, hi exclusive)
Slice(s, lo, hi) == SubSeq(s, lo + 1, hi)

(***************************************************************************)
(* Numbers.                                                                *)
(***************************************************************************)
Digits == {"0", "1", "2", "3", "4", "5", "6", "7", "8", "9"}

DigitVal(ch) ==
    CASE ch = "0" -> 0 [] ch = "1" -> 1 [] ch = "2" -> 2 [] ch = "3" -> 3
      [] ch = "4" -> 4 [] ch = "5" -> 5 [] ch = "6" -> 6 [] ch = "7" -> 7
      [] ch = "8" -> 8 [] ch = "9" -> 9

RECURSIVE DigitsVal(_)
DigitsVal(s) ==
    IF s = <<>> THEN 0 ELSE 10 * DigitsVal(SubSeq(s, 1, Len(s) - 1)) + DigitVal(s[Len(s)])

AllDigits(s) == \A i \in 1..Len(s) : s[i] \in Digits

\* strconv.Atoi: an optional sign and one or more decimal digits, nothing
\* else.  [ok |-> FALSE] stands for err != nil.
Atoi(s) ==
    LET signed == s # <<>> /\ s[1] \in {"+", "-"}
        body   == IF signed THEN Tail(s) ELSE s
    IN  IF body # <<>> /\ AllDigits(body)
        THEN [ok |-> TRUE,
              val |-> IF signed /\ s[1] = "-" THEN 0 - DigitsVal(body) ELSE DigitsVal(body)]
        ELSE [ok |-> FALSE, val |-> 0]

\* A float64 value, held exactly as mant / 10^scale with no trailing zero
\* in the fraction, so that 2.0 and 2 are the same value.
RECURSIVE Float(_, _)
Float(mant, scale) ==
    IF scale > 0 /\ mant % 10 = 0 THEN Float(mant \div 10, scale - 1)
    ELSE [mant |-> mant, scale |-> scale]

\* strconv.ParseFloat(s, 64) on decimal literals: an optional sign, digits
\* with at most one decimal point, at least one digit.  Exponents, hex
\* floats, "inf" and "nan" are not modelled; no input of the model uses them.
ParseFloat(s) ==
    LET signed == s # <<>> /\ s[1] \in {"+", "-"}
        body   == IF signed THEN Tail(s) ELSE s
        dot    == Index(body, ".")
        whole  == IF dot < 0 THEN body ELSE Slice(body, 0, dot)
        frac   == IF dot < 0 THEN <<>> ELSE Slice(body, dot + 1, Len(body))
        mag    == DigitsVal(whole \o frac)
    IN  IF AllDigits(whole) /\ AllDigits(frac) /\ Len(whole) + Len(frac) > 0
        THEN [ok |-> TRUE,
              val |-> Float(IF signed /\ s[1] = "-" THEN 0 - mag ELSE mag, Len(frac))]
        ELSE [ok |-> FALSE, val |-> Float(0, 0)]

(***************************************************************************)
(* A loop `for _, char := range text { body }` over the characters of a    *)
(* text: body(st, ch) applied to text[lo], ..., text[hi] in order, from    *)
(* st.  The loop is evaluated by halves, the first half before the second  *)
(* (the test `first = first` is always true and only orders the            *)
(* evaluation), which keeps the evaluation shallow on long texts.          *)
(***************************************************************************)
RECURSIVE ForRange(_, _, _, _, _)
ForRange(body(_, _), text, lo, hi, st) ==
    IF lo > hi THEN st
    ELSE IF lo = hi THEN body(st, text[lo])
    ELSE LET mid   == (lo + hi) \div 2
             first == ForRange(body, text, lo, mid, st)
         IN  IF first = first THEN ForRange(body, text, mid + 1, hi, first) ELSE first

(***************************************************************************)
(* The chain segmenter.                                                    *)
(***************************************************************************)
\* One iteration of the loop of splitMethodChains on character ch.  The
\* ')' case runs an inner loop that advances i past the dots, spaces and
\* newlines that follow; i is the range clause's variable, assigned afresh
\* on every iteration, so that loop changes nothing: every character of
\* dslCode is visited.
\* splitStep with the dots and the whitespace after a closed call skipped
splitStepSkipping(st, ch) ==
    LET written == [st EXCEPT !.current = Append(@, ch)]
    IN  IF st.current = <<>> /\ st.parts # <<>> /\ ch \in {".", " ", "\n"} THEN st
        ELSE IF st.escape THEN [written EXCEPT !.escape = FALSE]
        ELSE CASE ch = "\\" -> [written EXCEPT !.escape = TRUE]
               [] ch = "\"" -> [written EXCEPT !.inString = ~st.inString]
               [] ch = "("  -> IF ~st.inString
                               THEN [written EXCEPT !.depth = st.depth + 1]
                               ELSE written
               [] ch = ")"  -> IF ~st.inString
                               THEN IF st.depth - 1 = 0
                                    THEN [st EXCEPT !.depth = 0,
                                                    !.parts = Append(@, Append(st.current, ch)),
                                                    !.current = <<>>]
                                    ELSE [written EXCEPT !.depth = st.depth - 1]
                               ELSE written
               [] OTHER     -> written

splitStep(st, ch) ==
    LET written == [st EXCEPT !.current = Append(@, ch)]
    IN  IF st.escape THEN [written EXCEPT !.escape = FALSE]
        ELSE CASE ch = "\\" -> [written EXCEPT !.escape = TRUE]
               [] ch = "\"" -> [written EXCEPT !.inString = ~st.inString]
               [] ch = "("  -> IF ~st.inString
                               THEN [written EXCEPT !.depth = st.depth + 1]
                               ELSE written
               [] ch = ")"  -> IF ~st.inString
                               THEN IF st.depth - 1 = 0
                                    THEN [st EXCEPT !.depth = 0,
                                                    !.parts = Append(@, Append(st.current, ch)),
                                                    !.current = <<>>]
                                    ELSE [written EXCEPT !.depth = st.depth - 1]
                               ELSE written
               [] OTHER     -> written

\* after the loop: the text that no ')' closed is the last part
lastPart(st) ==
    IF Len(st.current) > 0 THEN Append(st.parts, st.current) ELSE st.parts

splitMethodChains(dslCode) ==
    lastPart(ForRange(splitStep, dslCode, 1, Len(dslCode),
                      [parts |-> <<>>, current |-> <<>>, depth |-> 0,
                       inString |-> FALSE, escape |-> FALSE]))

(***************************************************************************)
(* The parameter extractor.  A params map is a function from keys (texts)  *)
(* to raw values (texts).                                                  *)
(***************************************************************************)
NoParams == <<>>

Has(params, key) == key \in DOMAIN params

\* params[key] = value
Put(params, key, value) == (key :> value) @@ params

\* extractStep with a comma ending the value inside a string too
extractStepCommaSplits(st, ch) ==
    LET toValue == [st EXCEPT !.currentValue = Append(@, ch)]
        toKey   == [st EXCEPT !.currentKey = Append(@, ch)]
    IN  IF st.escape
        THEN [(IF st.inString THEN toValue ELSE st) EXCEPT !.escape = FALSE]
        ELSE CASE ch = "\\" ->
                    [(IF st.inString THEN toValue ELSE st) EXCEPT !.escape = TRUE]
               [] ch = "\"" ->
                    IF st.inString /\ st.currentParamKey # <<>>
                    THEN [st EXCEPT !.inString = FALSE,
                                    !.params = Put(@, st.currentParamKey, st.currentValue),
                                    !.currentParamKey = <<>>,
                                    !.currentValue = <<>>,
                                    !.expectingValue = FALSE]
                    ELSE [st EXCEPT !.inString = ~st.inString]
               [] ch = "=" ->
                    IF ~st.inString
                    THEN [st EXCEPT !.currentParamKey = TrimSpace(st.currentKey),
                                    !.currentKey = <<>>,
                                    !.expectingValue = TRUE]
                    ELSE toValue
               [] ch = "," ->
                    IF st.currentParamKey # <<>> /\ Len(st.currentValue) > 0
                    THEN [st EXCEPT !.params = Put(@, st.currentParamKey,
                                                   TrimSpace(st.currentValue)),
                                    !.currentParamKey = <<>>,
                                    !.currentValue = <<>>,
                                    !.currentKey = <<>>,
                                    !.expectingValue = FALSE]
                    ELSE st
               [] OTHER ->
                    IF st.expectingValue THEN toValue ELSE toKey

\* One iteration of the loop of extractParams on character ch.
extractStep(st, ch) ==
    LET toValue == [st EXCEPT !.currentValue = Append(@, ch)]
        toKey   == [st EXCEPT !.currentKey = Append(@, ch)]
    IN  IF st.escape
        THEN [(IF st.inString THEN toValue ELSE st) EXCEPT !.escape = FALSE]
        ELSE CASE ch = "\\" ->
                    [(IF st.inString THEN toValue ELSE st) EXCEPT !.escape = TRUE]
               [] ch = "\"" ->
                    IF st.inString /\ st.currentParamKey # <<>>
                    THEN [st EXCEPT !.inString = FALSE,
                                    !.params = Put(@, st.currentParamKey, st.currentValue),
                                    !.currentParamKey = <<>>,
                                    !.currentValue = <<>>,
                                    !.expectingValue = FALSE]
                    ELSE [st EXCEPT !.inString = ~st.inString]
               [] ch = "=" ->
                    IF ~st.inString
                    THEN [st EXCEPT !.currentParamKey = TrimSpace(st.currentKey),
                                    !.currentKey = <<>>,
                                    !.expectingValue = TRUE]
                    ELSE toValue
               [] ch = "," ->
                    IF ~st.inString
                    THEN IF st.currentParamKey # <<>> /\ Len(st.currentValue) > 0
                         THEN [st EXCEPT !.params = Put(@, st.currentParamKey,
                                                        TrimSpace(st.currentValue)),
                                         !.currentParamKey = <<>>,
                                         !.currentValue = <<>>,
                                         !.currentKey = <<>>,
                                         !.expectingValue = FALSE]
                         ELSE st
                    ELSE toValue
               [] OTHER ->
                    IF st.expectingValue THEN toValue ELSE toKey

\* after the loop: the last parameter, which no comma follows
lastParam(st) ==
    IF st.currentParamKey # <<>> /\ TrimSpace(st.currentValue) # <<>>
    THEN Put(st.params, st.currentParamKey, TrimSpace(st.currentValue))
    ELSE st.params

\* extractParams on content, the trimmed text between the parentheses
scanParams(content) ==
    IF content = <<>> THEN NoParams
    ELSE lastParam(ForRange(extractStep, content, 1, Len(content),
                            [params |-> NoParams, currentKey |-> <<>>,
                             currentValue |-> <<>>, inString |-> FALSE,
                             escape |-> FALSE, expectingValue |-> FALSE,
                             currentParamKey |-> <<>>]))

extractParams(call) ==
    LET start == Index(call, "(")
        end   == LastIndex(call, ")")
    IN  IF start < 0 \/ end < 0 \/ end <= start THEN NoParams
        ELSE scanParams(TrimSpace(Slice(call, start + 1, end)))

(***************************************************************************)
(* Keywords and parameter names, as texts.                                 *)
(***************************************************************************)
PrefixTrack == <<"t","r","a","c","k","(">>
PrefixNewClip == <<".","n","e","w","C","l","i","p","(">>
PrefixAddMidi == <<".","a","d","d","M","i","d","i","(">>
PrefixAddFX == <<".","a","d","d","F","X","(">>
PrefixAddInstrument == <<".","a","d","d","I","n","s","t","r","u","m","e","n","t","(">>
PrefixSetVolume == <<".","s","e","t","V","o","l","u","m","e","(">>
PrefixSetPan == <<".","s","e","t","P","a","n","(">>
PrefixSetMute == <<".","s","e","t","M","u","t","e","(">>
PrefixSetSolo == <<".","s","e","t","S","o","l","o","(">>
PrefixSetName == <<".","s","e","t","N","a","m","e","(">>
KeyId == <<"i","d">>
KeySelected == <<"s","e","l","e","c","t","e","d">>
KeyIndex == <<"i","n","d","e","x">>
KeyInstrument == <<"i","n","s","t","r","u","m","e","n","t">>
KeyName == <<"n","a","m","e">>
KeyBar == <<"b","a","r">>
KeyLengthBars == <<"l","e","n","g","t","h","_","b","a","r","s">>
KeyStart == <<"s","t","a","r","t">>
KeyLength == <<"l","e","n","g","t","h">>
KeyPosition == <<"p","o","s","i","t","i","o","n">>
KeyFxname == <<"f","x","n","a","m","e">>
KeyVolumeDb == <<"v","o","l","u","m","e","_","d","b">>
KeyPan == <<"p","a","n">>
KeyMute == <<"m","u","t","e">>
KeySolo == <<"s","o","l","o">>
BooleanTrue == <<"t","r","u","e">>
CapitalTrue == <<"T","r","u","e">>

(***************************************************************************)
(* Go values of the DAW state (map[string]interface{}), tagged with their  *)
(* dynamic type so that a type assertion can fail.                         *)
(***************************************************************************)
GoNil == [t |-> "nil"]
GoMap(m) == [t |-> "map[string]interface{}", v |-> m]
GoSlice(s) == [t |-> "[]interface{}", v |-> s]
GoMapSlice(s) == [t |-> "[]map[string]interface{}", v |-> s]
GoBool(b) == [t |-> "bool", v |-> b]
GoString(s) == [t |-> "string", v |-> s]

IsMap(x) == x.t = "map[string]interface{}"
IsSlice(x) == x.t = "[]interface{}"
IsBool(x) == x.t = "bool"

\* m[key] on a Go map: the zero value (nil) when the key is absent
MapIndex(m, key) == IF key \in DOMAIN m.v THEN m.v[key] ELSE GoNil

(***************************************************************************)
(* The Parser: [trackCounter, state].                                      *)
(***************************************************************************)
NewParser == [trackCounter |-> 0, state |-> GoNil]

\* firstSelected without the type assertion on the flag
RECURSIVE firstFlagged(_, _)
firstFlagged(tracks, i) ==
    IF i > Len(tracks) THEN -1
    ELSE IF IsMap(tracks[i]) /\ "selected" \in DOMAIN tracks[i].v THEN i - 1
    ELSE firstFlagged(tracks, i + 1)

\* 0-based index of the first entry of tracks, from 1-based position i on,
\* that is a map whose "selected" is the bool true; -1 when there is none
RECURSIVE firstSelected(_, _)
firstSelected(tracks, i) ==
    IF i > Len(tracks) THEN -1
    ELSE IF /\ IsMap(tracks[i])
            /\ IsBool(MapIndex(tracks[i], "selected"))
            /\ MapIndex(tracks[i], "selected").v
         THEN i - 1
         ELSE firstSelected(tracks, i + 1)

getSelectedTrackIndex(p) ==
    IF p.state.t = "nil" THEN -1
    ELSE LET stateMap == MapIndex(p.state, "state")
         IN  IF ~IsMap(stateMap) THEN -1
             ELSE LET tracks == MapIndex(stateMap, "tracks")
                  IN  IF ~IsSlice(tracks) THEN -1
                      ELSE firstSelected(tracks.v, 1)

(***************************************************************************)
(* Action records: functions from field names to values.                   *)
(***************************************************************************)
\* action[key] = value
Set(action, key, value) == (key :> value) @@ action

\* action[key] = value when cond holds
SetIf(cond, action, key, value) == IF cond THEN Set(action, key, value) ELSE action

HasField(action, key) == key \in DOMAIN action

Nil == <<>>

Errorf(msg) == <<msg>>

\* fmt.Errorf("<msg>: %w", err)
Wrap(msg, err) == <<msg>> \o err

DefaultLengthBars == 4

DefaultLength == Float(4, 0)

(***************************************************************************)
(* The action builders.  A builder returns [action, err]; parseTrackCall   *)
(* also returns the index, the advanced counter, and whether the type      *)
(* assertion action["index"].(int) panicked.                               *)
(***************************************************************************)
\* parseTrackCall on the parameters of the call
trackAction(p, params) ==
    LET a0      == [action |-> "create_track"]
        a1      == SetIf(Has(params, KeyInstrument), a0, "instrument",
                         IF Has(params, KeyInstrument) THEN params[KeyInstrument] ELSE <<>>)
        a2      == SetIf(Has(params, KeyName), a1, "name",
                         IF Has(params, KeyName) THEN params[KeyName] ELSE <<>>)
        given   == Has(params, KeyIndex)
        index   == IF given THEN Atoi(params[KeyIndex]) ELSE [ok |-> FALSE, val |-> 0]
        action  == IF given
                   THEN SetIf(index.ok, a2, "index", index.val)
                   ELSE Set(a2, "index", p.trackCounter)
        counter == IF given
                   THEN IF index.ok THEN index.val + 1 ELSE p.trackCounter
                   ELSE p.trackCounter + 1
    IN  [action       |-> action,
         index        |-> IF HasField(action, "index") THEN action["index"] ELSE 0,
         err          |-> Nil,
         panicked     |-> ~HasField(action, "index"),
         trackCounter |-> counter]

parseTrackCall(p, call) == trackAction(p, extractParams(call))

\* clipAt without the default length
clipAtNoDefault(params, action, posKey) ==
    LET pos == ParseFloat(params[posKey])
        a1  == SetIf(pos.ok, action, "position", pos.val)
        len == IF Has(params, KeyLength) THEN ParseFloat(params[KeyLength])
               ELSE [ok |-> FALSE, val |-> DefaultLength]
    IN  SetIf(len.ok, a1, "length", len.val)

\* The time-based form of parseClipCall, for `start` and for its alias
\* `position`: the value of key posKey becomes the record's position.
clipAt(params, action, posKey) ==
    LET pos == ParseFloat(params[posKey])
        a1  == SetIf(pos.ok, action, "position", pos.val)
        len == IF Has(params, KeyLength) THEN ParseFloat(params[KeyLength])
               ELSE [ok |-> TRUE, val |-> DefaultLength]
    IN  SetIf(len.ok, a1, "length", len.val)

\* parseClipCall on the parameters of the call and the track index after
\* the fallback
clipAction(params, resolved) ==
    LET action == [action |-> "create_clip", track |-> resolved]
    IN  IF resolved < 0
        THEN [action |-> <<>>,
              err |-> Errorf("no track context for clip call and no selected track found")]
        ELSE IF Has(params, KeyBar)
        THEN LET bar == Atoi(params[KeyBar])
                 a1  == Set(action, "action", "create_clip_at_bar")
                 a2  == SetIf(bar.ok, a1, "bar", bar.val)
                 len == IF Has(params, KeyLengthBars) THEN Atoi(params[KeyLengthBars])
                        ELSE [ok |-> TRUE, val |-> DefaultLengthBars]
             IN  [action |-> SetIf(len.ok, a2, "length_bars", len.val), err |-> Nil]
        ELSE IF Has(params, KeyStart)
        THEN [action |-> clipAt(params, action, KeyStart), err |-> Nil]
        ELSE IF Has(params, KeyPosition)
        THEN [action |-> clipAt(params, action, KeyPosition), err |-> Nil]
        ELSE [action |-> <<>>,
              err |-> Errorf("clip call must specify bar or start/position")]

parseClipCall(p, call, trackIndex) ==
    clipAction(extractParams(call),
               IF trackIndex < 0 THEN getSelectedTrackIndex(p) ELSE trackIndex)

\* parseMidiCall with a fallback to the selected track
parseMidiCallFallback(p, call, trackIndex) ==
    LET resolved == IF trackIndex < 0 THEN getSelectedTrackIndex(p) ELSE trackIndex
    IN  IF resolved < 0
        THEN [action |-> <<>>, err |-> Errorf("no track context for midi call")]
        ELSE [action |-> [action |-> "add_midi", track |-> resolved, notes |-> <<>>],
              err |-> Nil]

\* The call text is ignored: the notes are a placeholder, an empty list.
parseMidiCall(p, call, trackIndex) ==
    IF trackIndex < 0
    THEN [action |-> <<>>, err |-> Errorf("no track context for midi call")]
    ELSE [action |-> [action |-> "add_midi", track |-> trackIndex, notes |-> <<>>],
          err |-> Nil]

\* fxAction with instrument looked up before fxname
fxActionInstrumentFirst(params, trackIndex) ==
    LET action == [action |-> "add_track_fx", track |-> trackIndex]
    IN  IF trackIndex < 0
        THEN [action |-> <<>>, err |-> Errorf("no track context for FX call")]
        ELSE IF Has(params, KeyInstrument)
        THEN [action |-> Set(Set(action, "action", "add_instrument"),
                             "fxname", params[KeyInstrument]),
              err |-> Nil]
        ELSE IF Has(params, KeyFxname)
        THEN [action |-> Set(action, "fxname", params[KeyFxname]), err |-> Nil]
        ELSE [action |-> <<>>, err |-> Errorf("FX call must specify fxname or instrument")]

\* parseFXCall on the parameters of the call
fxAction(params, trackIndex) ==
    LET action == [action |-> "add_track_fx", track |-> trackIndex]
    IN  IF trackIndex < 0
        THEN [action |-> <<>>, err |-> Errorf("no track context for FX call")]
        ELSE IF Has(params, KeyFxname)
        THEN [action |-> Set(action, "fxname", params[KeyFxname]), err |-> Nil]
        ELSE IF Has(params, KeyInstrument)
        THEN [action |-> Set(Set(action, "action", "add_instrument"),
                             "fxname", params[KeyInstrument]),
              err |-> Nil]
        ELSE [action |-> <<>>, err |-> Errorf("FX call must specify fxname or instrument")]

parseFXCall(p, call, trackIndex) == fxAction(extractParams(call), trackIndex)

\* The shape shared by parseVolumeCall and parsePanCall: a required numeric
\* parameter, set on the record only when it parses as a float.
numberCall(params, trackIndex, name, key, field, noTrack, missing) ==
    LET action == [action |-> name, track |-> trackIndex]
    IN  IF trackIndex < 0 THEN [action |-> <<>>, err |-> Errorf(noTrack)]
        ELSE IF Has(params, key)
        THEN LET f == ParseFloat(params[key])
             IN  [action |-> SetIf(f.ok, action, field, f.val), err |-> Nil]
        ELSE [action |-> <<>>, err |-> Errorf(missing)]

\* parseVolumeCall with a fallback to the selected track
parseVolumeCallFallback(p, call, trackIndex) ==
    numberCall(extractParams(call),
               IF trackIndex < 0 THEN getSelectedTrackIndex(p) ELSE trackIndex,
               "set_track_volume", KeyVolumeDb, "volume_db",
               "no track context for volume call", "volume call must specify volume_db")

parseVolumeCall(p, call, trackIndex) ==
    numberCall(extractParams(call), trackIndex, "set_track_volume", KeyVolumeDb, "volume_db",
               "no track context for volume call", "volume call must specify volume_db")

parsePanCall(p, call, trackIndex) ==
    numberCall(extractParams(call), trackIndex, "set_track_pan", KeyPan, "pan",
               "no track context for pan call", "pan call must specify pan")

\* boolCall with the flag set by the presence of the parameter
boolCallPresence(params, trackIndex, name, key, field, noTrack, missing) ==
    LET action == [action |-> name, track |-> trackIndex]
    IN  IF trackIndex < 0 THEN [action |-> <<>>, err |-> Errorf(noTrack)]
        ELSE IF Has(params, key)
        THEN [action |-> Set(action, field, TRUE), err |-> Nil]
        ELSE [action |-> <<>>, err |-> Errorf(missing)]

\* The shape shared by parseMuteCall and parseSoloCall: a required parameter
\* compared with BooleanTrue.
boolCall(params, trackIndex, name, key, field, noTrack, missing) ==
    LET action == [action |-> name, track |-> trackIndex]
    IN  IF trackIndex < 0 THEN [action |-> <<>>, err |-> Errorf(noTrack)]
        ELSE IF Has(params, key)
        THEN [action |-> Set(action, field, params[key] = BooleanTrue), err |-> Nil]
        ELSE [action |-> <<>>, err |-> Errorf(missing)]

parseMuteCall(p, call, trackIndex) ==
    boolCall(extractParams(call), trackIndex, "set_track_mute", KeyMute, "mute",
             "no track context for mute call", "mute call must specify mute")

parseSoloCall(p, call, trackIndex) ==
    boolCall(extractParams(call), trackIndex, "set_track_solo", KeySolo, "solo",
             "no track context for solo call", "solo call must specify solo")

\* parseNameCall without the check of the track index
parseNameCallUnchecked(p, call, trackIndex) ==
    LET params == extractParams(call)
        action == [action |-> "set_track_name", track |-> trackIndex]
    IN  IF Has(params, KeyName)
        THEN [action |-> Set(action, "name", params[KeyName]), err |-> Nil]
        ELSE [action |-> <<>>, err |-> Errorf("name call must specify name")]

\* parseNameCall on the parameters of the call
nameAction(params, trackIndex) ==
    LET action == [action |-> "set_track_name", track |-> trackIndex]
    IN  IF trackIndex < 0
        THEN [action |-> <<>>, err |-> Errorf("no track context for name call")]
        ELSE IF Has(params, KeyName)
        THEN [action |-> Set(action, "name", params[KeyName]), err |-> Nil]
        ELSE [action |-> <<>>, err |-> Errorf("name call must specify name")]

parseNameCall(p, call, trackIndex) == nameAction(extractParams(call), trackIndex)

(***************************************************************************)
(* ParseDSL.  The loop over the parts carries                              *)
(*   actions, currentTrackIndex   the locals of ParseDSL                   *)
(*   trackCounter                 the Parser's field, which parseTrackCall *)
(*                                advances                                 *)
(*   err, panicked, returned      how and whether the call has ended       *)
(***************************************************************************)
\* return nil, fmt.Errorf("<msg>: %w", err)
fail(st, err) == [st EXCEPT !.actions = <<>>, !.err = err, !.returned = TRUE]

\* if err != nil { return nil, wrapped err }; actions = append(actions, action)
emit(st, built, msg) ==
    IF built.err # Nil THEN fail(st, Wrap(msg, built.err))
    ELSE [st EXCEPT !.actions = Append(@, built.action)]

\* refer without the conversion from 1-based to 0-based
referZeroBased(st, trackNum) == [st EXCEPT !.currentTrackIndex = trackNum]

\* refer counting from the Parser's counter
referFromCounter(st, trackNum) ==
    [st EXCEPT !.currentTrackIndex = trackNum - 1 + st.trackCounter]

\* track(id=N), track(N): the reference sets the track context, no action
refer(st, trackNum) == [st EXCEPT !.currentTrackIndex = trackNum - 1]

\* createTrack without the counter's advance
createTrackNoAdvance(p, st, part) ==
    LET built == parseTrackCall(p, part)
    IN  IF built.panicked
        THEN [st EXCEPT !.actions = <<>>, !.panicked = TRUE, !.returned = TRUE]
        ELSE [emit(st, built, "failed to parse track call")
                 EXCEPT !.currentTrackIndex = built.index]

\* what follows the call of parseTrackCall, which returned built
created(st, built) ==
    IF built.panicked
    THEN [st EXCEPT !.actions = <<>>, !.panicked = TRUE, !.returned = TRUE,
                    !.trackCounter = built.trackCounter]
    ELSE [emit(st, built, "failed to parse track call")
             EXCEPT !.currentTrackIndex = built.index,
                    !.trackCounter = built.trackCounter]

\* the creation of a track( part
createTrack(p, st, part) == created(st, parseTrackCall(p, part))

\* What the reference forms of a track( part come to: a track number
\* ("refer"), the selected track ("selected"), the error of a selection that
\* finds no track ("return"), or none of them ("create"), in which case the
\* part falls through to the creation.
\* trackReference with every selected parameter taken as a reference
trackReferenceAnySelected(p, part, params) ==
    IF Has(params, KeyId)
    THEN IF Atoi(params[KeyId]).ok
         THEN [to |-> "refer", trackNum |-> Atoi(params[KeyId]).val]
         ELSE [to |-> "create"]
    ELSE IF Has(params, KeySelected)
    THEN IF getSelectedTrackIndex(p) >= 0
         THEN [to |-> "selected", selectedIndex |-> getSelectedTrackIndex(p)]
         ELSE [to |-> "return"]
    ELSE IF DOMAIN params = {}
    THEN LET start    == Index(part, "(")
             end      == LastIndex(part, ")")
             trackNum == Atoi(TrimSpace(Slice(part, start + 1, end)))
         IN  IF start >= 0 /\ end > start /\ trackNum.ok
             THEN [to |-> "refer", trackNum |-> trackNum.val]
             ELSE [to |-> "create"]
    ELSE [to |-> "create"]

trackReference(p, part, params) ==
    IF Has(params, KeyId)
    THEN IF Atoi(params[KeyId]).ok
         THEN [to |-> "refer", trackNum |-> Atoi(params[KeyId]).val]
         ELSE [to |-> "create"]
    ELSE IF Has(params, KeySelected)
    THEN IF params[KeySelected] \in {BooleanTrue, CapitalTrue}
         THEN IF getSelectedTrackIndex(p) >= 0
              THEN [to |-> "selected", selectedIndex |-> getSelectedTrackIndex(p)]
              ELSE [to |-> "return"]
         ELSE [to |-> "create"]
    ELSE IF DOMAIN params = {}
    THEN LET start    == Index(part, "(")
             end      == LastIndex(part, ")")
             trackNum == Atoi(TrimSpace(Slice(part, start + 1, end)))
         IN  IF start >= 0 /\ end > start /\ trackNum.ok
             THEN [to |-> "refer", trackNum |-> trackNum.val]
             ELSE [to |-> "create"]
    ELSE [to |-> "create"]

\* the body of `if strings.HasPrefix(part, "track(")`, given what the
\* reference forms come to
resolveTrack(p, st, part, ref) ==
    CASE ref.to = "refer"    -> refer(st, ref.trackNum)
      [] ref.to = "selected" -> [st EXCEPT !.currentTrackIndex = ref.selectedIndex]
      [] ref.to = "return"   -> fail(st, Errorf("no selected track found in state"))
      [] OTHER               -> createTrack(p, st, part)

trackPart(p, st, part) ==
    resolveTrack(p, st, part, trackReference(p, part, extractParams(part)))

\* the body of `else if strings.HasPrefix(part, ".newClip(")`
\* clipPart with the track of the fallback kept as the current track
clipPartAdopts(p, st, part) ==
    LET trackIndex == IF st.currentTrackIndex < 0 THEN getSelectedTrackIndex(p)
                      ELSE st.currentTrackIndex
    IN  [emit(st, parseClipCall(p, part, trackIndex), "failed to parse clip call")
            EXCEPT !.currentTrackIndex = trackIndex]

clipPart(p, st, part) ==
    LET trackIndex == IF st.currentTrackIndex < 0 THEN getSelectedTrackIndex(p)
                      ELSE st.currentTrackIndex
    IN  emit(st, parseClipCall(p, part, trackIndex), "failed to parse clip call")

\* dispatch with an error for a part that no branch recognizes
dispatchStrict(p, st, part) ==
    IF part = <<>> THEN st
    ELSE IF HasPrefix(part, PrefixTrack) THEN trackPart(p, st, part)
    ELSE IF HasPrefix(part, PrefixNewClip) THEN clipPart(p, st, part)
    ELSE IF HasPrefix(part, PrefixAddMidi)
    THEN emit(st, parseMidiCall(p, part, st.currentTrackIndex), "failed to parse midi call")
    ELSE IF HasPrefix(part, PrefixAddFX) \/ HasPrefix(part, PrefixAddInstrument)
    THEN emit(st, parseFXCall(p, part, st.currentTrackIndex), "failed to parse FX call")
    ELSE IF HasPrefix(part, PrefixSetVolume)
    THEN emit(st, parseVolumeCall(p, part, st.currentTrackIndex), "failed to parse volume call")
    ELSE IF HasPrefix(part, PrefixSetPan)
    THEN emit(st, parsePanCall(p, part, st.currentTrackIndex), "failed to parse pan call")
    ELSE IF HasPrefix(part, PrefixSetMute)
    THEN emit(st, parseMuteCall(p, part, st.currentTrackIndex), "failed to parse mute call")
    ELSE IF HasPrefix(part, PrefixSetSolo)
    THEN emit(st, parseSoloCall(p, part, st.currentTrackIndex), "failed to parse solo call")
    ELSE IF HasPrefix(part, PrefixSetName)
    THEN emit(st, parseNameCall(p, part, st.currentTrackIndex), "failed to parse name call")
    ELSE fail(st, Errorf("unknown call"))

\* one iteration of the loop over the parts, on the trimmed part
dispatch(p, st, part) ==
    IF part = <<>> THEN st
    ELSE IF HasPrefix(part, PrefixTrack) THEN trackPart(p, st, part)
    ELSE IF HasPrefix(part, PrefixNewClip) THEN clipPart(p, st, part)
    ELSE IF HasPrefix(part, PrefixAddMidi)
    THEN emit(st, parseMidiCall(p, part, st.currentTrackIndex), "failed to parse midi call")
    ELSE IF HasPrefix(part, PrefixAddFX) \/ HasPrefix(part, PrefixAddInstrument)
    THEN emit(st, parseFXCall(p, part, st.currentTrackIndex), "failed to parse FX call")
    ELSE IF HasPrefix(part, PrefixSetVolume)
    THEN emit(st, parseVolumeCall(p, part, st.currentTrackIndex), "failed to parse volume call")
    ELSE IF HasPrefix(part, PrefixSetPan)
    THEN emit(st, parsePanCall(p, part, st.currentTrackIndex), "failed to parse pan call")
    ELSE IF HasPrefix(part, PrefixSetMute)
    THEN emit(st, parseMuteCall(p, part, st.currentTrackIndex), "failed to parse mute call")
    ELSE IF HasPrefix(part, PrefixSetSolo)
    THEN emit(st, parseSoloCall(p, part, st.currentTrackIndex), "failed to parse solo call")
    ELSE IF HasPrefix(part, PrefixSetName)
    THEN emit(st, parseNameCall(p, part, st.currentTrackIndex), "failed to parse name call")
    ELSE st

RECURSIVE partsLoop(_, _, _, _)
partsLoop(state, parts, i, st) ==
    IF i > Len(parts) \/ st.returned THEN st
    ELSE partsLoop(state, parts, i + 1,
                   dispatch([trackCounter |-> st.trackCounter, state |-> state],
                            st, TrimSpace(parts[i])))

\* what ParseDSL returns after the loop, or from inside it
result(st) ==
    IF st.returned
    THEN [actions |-> st.actions, err |-> st.err, panicked |-> st.panicked,
          trackCounter |-> st.trackCounter]
    ELSE IF Len(st.actions) = 0
    THEN [actions |-> <<>>, err |-> Errorf("no actions found in DSL code"),
          panicked |-> FALSE, trackCounter |-> st.trackCounter]
    ELSE [actions |-> st.actions, err |-> Nil, panicked |-> FALSE,
          trackCounter |-> st.trackCounter]

\* ParseDSL on the trimmed code
parse(p, code) ==
    IF code = <<>>
    THEN [actions |-> <<>>, err |-> Errorf("empty DSL code"), panicked |-> FALSE,
          trackCounter |-> p.trackCounter]
    ELSE result(partsLoop(p.state, splitMethodChains(code), 1,
                          [actions |-> <<>>, currentTrackIndex |-> -1,
                           trackCounter |-> p.trackCounter,
                           err |-> Nil, panicked |-> FALSE, returned |-> FALSE]))

\* ParseDSL on Parser p: what the call returns (actions, err), whether it
\* panicked instead, and the Parser's counter when it ends.
ParseDSL(p, dslCode) == parse(p, TrimSpace(dslCode))

(***************************************************************************)
(* Inputs: program texts, built from calls as the grammar and the examples *)
(* write them, and DAW states.                                             *)
(***************************************************************************)
MaxTrackCounter == 3

MaxRef == 2

TxtSerum == <<"S","e","r","u","m">>
TxtPiano == <<"P","i","a","n","o">>
TxtBass == <<"B","a","s","s">>
TxtReaEQ == <<"R","e","a","E","Q">>
TxtFalse == <<"f","a","l","s","e">>
\* A, B (test) and a=b) : separators inside a string
TxtABTest == <<"A",","," ","B"," ","(","t","e","s","t",")">>
TxtEqParen == <<"a","=","b",")">>
TxtAbc == <<"a","b","c">>
TxtX == <<"x">>
TxtNotes == <<"n","o","t","e","s","=","[","]">>
\* notes=[{pitch=60, velocity=100, start=0, duration=1}]
TxtOneNote ==
    <<"n","o","t","e","s","=","[","{","p","i","t","c","h","=","6","0",",",
      " ","v","e","l","o","c","i","t","y","=","1","0","0",","," ","s","t","a","r",
      "t","=","0",","," ","d","u","r","a","t","i","o","n","=","1","}","]">>

DigitChar(d) ==
    CASE d = 0 -> "0" [] d = 1 -> "1" [] d = 2 -> "2" [] d = 3 -> "3" [] d = 4 -> "4"
      [] d = 5 -> "5" [] d = 6 -> "6" [] d = 7 -> "7" [] d = 8 -> "8" [] d = 9 -> "9"

\* the decimal text of an integer, as a program writes it
RECURSIVE Itoa(_)
Itoa(n) ==
    IF n < 0 THEN <<"-">> \o Itoa(0 - n)
    ELSE IF n < 10 THEN <<DigitChar(n)>>
    ELSE Append(Itoa(n \div 10), DigitChar(n % 10))

\* decimal literals, each with the number it denotes
Dec15 == [text |-> <<"1",".","5">>, val |-> [mant |-> 15, scale |-> 1]]
Dec20 == [text |-> <<"2",".","0">>, val |-> [mant |-> 2, scale |-> 0]]
DecNeg30 == [text |-> <<"-","3",".","0">>, val |-> [mant |-> -3, scale |-> 0]]
Dec05 == [text |-> <<"0",".","5">>, val |-> [mant |-> 5, scale |-> 1]]

Arg(key, value) == key \o <<"=">> \o value
Quoted(text) == <<"\"">> \o text \o <<"\"">>
Args2(a, b) == a \o <<",", " ">> \o b
Call(prefix, args) == prefix \o args \o <<")">>

TrackCreate == Call(PrefixTrack, <<>>)
TrackInstrument(instrument) == Call(PrefixTrack, Arg(KeyInstrument, Quoted(instrument)))
TrackIndex(k) == Call(PrefixTrack, Arg(KeyIndex, Itoa(k)))
TrackId(n) == Call(PrefixTrack, Arg(KeyId, Itoa(n)))
TrackBare(n) == Call(PrefixTrack, Itoa(n))
TrackSelected == Call(PrefixTrack, Arg(KeySelected, BooleanTrue))

NewClipBar(b) == Call(PrefixNewClip, Arg(KeyBar, Itoa(b)))
NewClipBarLen(b, n) ==
    Call(PrefixNewClip, Args2(Arg(KeyBar, Itoa(b)), Arg(KeyLengthBars, Itoa(n))))
NewClipAt(key, s) == Call(PrefixNewClip, Arg(key, s.text))
NewClipAtLen(key, s, l) ==
    Call(PrefixNewClip, Args2(Arg(key, s.text), Arg(KeyLength, l.text)))
\* the time form and the bar form in one call
NewClipBoth(key, s, b) ==
    Call(PrefixNewClip, Args2(Arg(key, s.text), Arg(KeyBar, Itoa(b))))
AddMidi == Call(PrefixAddMidi, TxtNotes)
AddMidiOneNote == Call(PrefixAddMidi, TxtOneNote)
AddFX(fxname) == Call(PrefixAddFX, Arg(KeyFxname, Quoted(fxname)))
AddInstrument(instrument) ==
    Call(PrefixAddInstrument, Arg(KeyInstrument, Quoted(instrument)))
\* fxname and instrument in one call
FxCall(prefix, key, text) == Call(prefix, Arg(key, Quoted(text)))
FxBoth(prefix) ==
    Call(prefix, Args2(Arg(KeyInstrument, Quoted(TxtSerum)), Arg(KeyFxname, Quoted(TxtReaEQ))))

SetVolume(v) == Call(PrefixSetVolume, Arg(KeyVolumeDb, v.text))
SetPan(v) == Call(PrefixSetPan, Arg(KeyPan, v.text))
SetMute(b) == Call(PrefixSetMute, Arg(KeyMute, b))
SetSolo(b) == Call(PrefixSetSolo, Arg(KeySolo, b))
SetName(name) == Call(PrefixSetName, Arg(KeyName, Quoted(name)))

\* the operation prefixes, and each operation's record name
OpPrefixes ==
    {PrefixNewClip, PrefixAddMidi, PrefixAddFX, PrefixAddInstrument, PrefixSetVolume,
     PrefixSetPan, PrefixSetMute, PrefixSetSolo, PrefixSetName}

\* one well-formed call of every operation
WellFormedOps ==
    {NewClipBarLen(5, 8), AddMidi, AddFX(TxtReaEQ), AddInstrument(TxtSerum),
     SetVolume(DecNeg30), SetPan(Dec05), SetMute(BooleanTrue), SetSolo(TxtFalse),
     SetName(TxtBass)}

\* the two call names with the other key, and the other boolean literals
OtherOps ==
    {FxCall(PrefixAddFX, KeyInstrument, TxtSerum),
     FxCall(PrefixAddInstrument, KeyFxname, TxtReaEQ),
     SetMute(TxtFalse), SetSolo(BooleanTrue)}

\* numeric parameters whose text is not a number
MalformedIndex == Call(PrefixTrack, Arg(KeyIndex, TxtX))
MalformedVolume == Call(PrefixSetVolume, Arg(KeyVolumeDb, TxtAbc))
MalformedLengthBars ==
    Call(PrefixNewClip, Args2(Arg(KeyBar, Itoa(3)), Arg(KeyLengthBars, TxtX)))

\* track(instrument="Serum" and track(instrument="Serum): a call with no
\* closing parenthesis, a string with no closing quote
UnclosedParen == PrefixTrack \o Arg(KeyInstrument, Quoted(TxtSerum))
UnclosedQuote == Call(PrefixTrack, Arg(KeyInstrument, <<"\"">> \o TxtSerum))
Unmatched == {UnclosedParen, UnclosedQuote}

\* string values that hold separators, alone and before a chained call
QuotedTexts == {TxtABTest, TxtEqParen}
QuotedPrograms ==
    {TrackInstrument(text) : text \in QuotedTexts}
    \cup {TrackInstrument(text) \o SetVolume(DecNeg30) : text \in QuotedTexts}

\* track calls with an id that is no number, with selected=false
TrackIdAbc == Call(PrefixTrack, Arg(KeyId, TxtAbc))
TrackSelectedFalse == Call(PrefixTrack, Arg(KeySelected, TxtFalse))
FallThrough == {TrackIdAbc, TrackSelectedFalse, TrackSelectedFalse \o SetMute(BooleanTrue)}

\* track(instrument="Serum").newClip(bar=3)
SerumClip == TrackInstrument(TxtSerum) \o NewClipBar(3)

\* track(instrument="Serum", name="Bass") and
\* track( instrument = "Serum" , name = "Bass" )
TrackTight ==
    Call(PrefixTrack, Args2(Arg(KeyInstrument, Quoted(TxtSerum)), Arg(KeyName, Quoted(TxtBass))))
TrackSpaced ==
    PrefixTrack \o <<" ">> \o KeyInstrument \o <<" ", "=", " ">> \o Quoted(TxtSerum)
        \o <<" ", ",", " ">> \o KeyName \o <<" ", "=", " ">> \o Quoted(TxtBass)
        \o <<" ", ")">>

\* track(index=1.5) and track(index=abc)
NonIntegerIndex ==
    {Call(PrefixTrack, Arg(KeyIndex, Dec15.text)), Call(PrefixTrack, Arg(KeyIndex, TxtAbc))}

\* calls and text that ParseDSL has no branch for
DeleteCall == <<".","d","e","l","e","t","e","(",")">>
SnakeNewClip ==
    Call(<<".","n","e","w","_","c","l","i","p","(">>,
         Args2(Arg(KeyBar, Itoa(1)), Arg(KeyLengthBars, Itoa(4))))
SnakeSetVolume ==
    Call(<<".","s","e","t","_","v","o","l","u","m","e","(">>, Arg(KeyVolumeDb, DecNeg30.text))
StrayText == <<" ","h","e","l","l","o">>
Unrecognized == {DeleteCall, SnakeNewClip, SnakeSetVolume, StrayText}
UnrecognizedPrograms ==
    {TrackCreate \o part : part \in Unrecognized}
    \cup {TrackCreate \o DeleteCall \o SetMute(BooleanTrue), DeleteCall}

\* .newClip(bar=1).setVolume(volume_db=-3.0): a chain with no track call
ClipThenVolume == NewClipBar(1) \o SetVolume(DecNeg30)

\* every operation called with no parameter at all
BareOps == {Call(prefix, <<>>) : prefix \in OpPrefixes}

\* the forms of newClip: by bar, by time, by both, by neither
ClipOps ==
    {NewClipBar(3),
     NewClipAt(KeyStart, Dec15),
     NewClipAt(KeyPosition, Dec20),
     NewClipAtLen(KeyStart, Dec15, Dec20),
     NewClipAtLen(KeyPosition, Dec20, Dec15),
     NewClipBoth(KeyStart, Dec15, 3),
     NewClipBoth(KeyPosition, Dec20, 3),
     Call(PrefixNewClip, Arg(KeyLengthBars, Itoa(4)))}

RefNums == (-1)..MaxRef

\* track calls that refer to a track, by id, by bare number, by selection
References ==
    {TrackId(n) : n \in RefNums} \cup {TrackBare(n) : n \in RefNums} \cup {TrackSelected}

\* track calls that create a track
Creations ==
    {TrackCreate, TrackInstrument(TxtSerum), TrackIndex(1), TrackIndex(-1)}

\* programs of several statements, separated by a space or a newline
SerumPiano ==
    TrackInstrument(TxtSerum) \o NewClipBarLen(1, 4) \o <<" ">>
        \o TrackInstrument(TxtPiano) \o NewClipBarLen(2, 4)

TwoCreations == TrackCreate \o <<"\n">> \o TrackCreate

ThreeCreations == TrackCreate \o <<" ">> \o TrackCreate \o <<"\n">> \o TrackCreate

IndexThenCreation(k, op) == TrackIndex(k) \o <<" ">> \o TrackCreate \o op

\* track() track() track(index=0) track()
CreationsAroundIndex ==
    TwoCreations \o <<" ">> \o TrackIndex(0) \o <<" ">> \o TrackCreate

NegativeIndexClip == TrackIndex(-1) \o NewClipBar(3) \o <<"\n">> \o TrackCreate \o SetPan(Dec05)

MultiStatement ==
    {SerumPiano, TwoCreations, ThreeCreations,
     IndexThenCreation(1, SetMute(BooleanTrue)),
     IndexThenCreation(-1, SetMute(BooleanTrue)), NegativeIndexClip}

Programs ==
    {<<>>, <<" ">>}
    \cup Creations \cup References \cup WellFormedOps
    \cup {TrackCreate \o op : op \in WellFormedOps \cup OtherOps \cup BareOps \cup ClipOps}
    \cup {TrackId(0) \o op : op \in WellFormedOps}
    \cup {TrackId(n) \o NewClipBarLen(5, 8) : n \in RefNums}
    \cup {TrackBare(n) \o SetVolume(DecNeg30) : n \in RefNums}
    \cup {TrackSelected \o NewClipBar(3), TrackSelected \o SetMute(BooleanTrue)}
    \cup {TrackIndex(-1) \o NewClipBar(3), TrackIndex(-1) \o SetPan(Dec05),
          TrackIndex(1) \o SetName(TxtBass)}
    \cup {TrackCreate \o FxBoth(prefix) : prefix \in {PrefixAddFX, PrefixAddInstrument}}
    \cup {TrackCreate \o AddMidiOneNote}
    \cup Unmatched \cup QuotedPrograms \cup FallThrough
    \cup {CreationsAroundIndex, SerumClip, TrackTight, TrackSpaced}
    \cup NonIntegerIndex \cup UnrecognizedPrograms
    \cup {NewClipBar(1), ClipThenVolume}
    \cup {MalformedIndex, TrackCreate \o MalformedVolume, TrackCreate \o MalformedLengthBars}
    \cup MultiStatement

\* DAW states.  A track descriptor carries a name and a selected flag.
Track(selected) == GoMap([name |-> GoString("Track"), selected |-> GoBool(selected)])

\* the shape getSelectedTrackIndex navigates: {"state": {"tracks": [...]}}
Wrapped(tracks) == GoMap([state |-> GoMap([tracks |-> GoSlice(tracks)])])

\* the shape of the README's usage: {"tracks": []map[string]interface{}{...}}
TopLevel(tracks) == GoMap([tracks |-> GoMapSlice(tracks)])

States ==
    {GoNil,
     Wrapped(<<Track(FALSE), Track(FALSE)>>),
     Wrapped(<<GoString("Track"), GoMap([selected |-> GoString("true")]),
               Track(TRUE), Track(TRUE)>>),
     TopLevel(<<Track(TRUE)>>)}

(***************************************************************************)
(* The state machine: one Parser, used by one caller.                      *)
(*   trackCounter, state   the Parser's fields                             *)
(*   last                  the caller's latest call: its argument, the     *)
(*                         Parser's counter when it was made, what it      *)
(*                         returned and whether it panicked instead        *)
(*   flight                the ParseDSL calls that run on goroutines at    *)
(*                         the same time, and the Parsers they run on:     *)
(*                         none when one caller uses the Parser            *)
(***************************************************************************)
VARIABLES trackCounter, state, last, flight

vars == <<trackCounter, state, last, flight>>

NoCalls == <<>>

Init ==
    /\ trackCounter = NewParser.trackCounter
    /\ state = NewParser.state
    /\ last = [op |-> "NewParser"]
    /\ flight = NoCalls

\* SetState that also resets the counter
SetStateResets(s) ==
    /\ state' = s
    /\ last' = [op |-> "SetState"]
    /\ trackCounter' = NewParser.trackCounter
    /\ UNCHANGED flight

SetState(s) ==
    /\ state' = s
    /\ last' = [op |-> "SetState"]
    /\ UNCHANGED <<trackCounter, flight>>

ParseDSLCall(dslCode) ==
    \E ret \in {ParseDSL([trackCounter |-> trackCounter, state |-> state], dslCode)} :
        /\ ret.trackCounter <= MaxTrackCounter
        /\ trackCounter' = ret.trackCounter
        /\ last' = [op |-> "ParseDSL", dslCode |-> dslCode, counter |-> trackCounter,
                    actions |-> ret.actions, err |-> ret.err, panicked |-> ret.panicked]
        /\ UNCHANGED <<state, flight>>

Next ==
    \/ \E s \in States : SetState(s)
    \/ \E dslCode \in Programs : ParseDSLCall(dslCode)

Spec == Init /\ [][Next]_vars

(***************************************************************************)
(* Concurrent use.  Two goroutines each call ParseDSL on a program of      *)
(* track() calls, on one Parser or on a Parser each, with no lock.  Of a   *)
(* call only the accesses to the Parser's counter are steps: the rest of   *)
(* ParseDSL works on locals.  The unsynchronized accesses are a data race, *)
(* so the steps of the two calls interleave in any order.                  *)
(*   flight.start[p]   the counter of Parser p before the calls            *)
(*   flight.counter[p] p.trackCounter                                      *)
(*   flight.g[g]       goroutine g: its Parser, its position, the track()  *)
(*                     calls it has left, the counter value that `++` has  *)
(*                     loaded, the indices of the records it has built     *)
(***************************************************************************)
Goroutines == {1, 2}
ParserIds == {1, 2}

\* the most track() calls in the program of one goroutine
MaxCreations == 2

Starting(on, n, c) ==
    [start   |-> c,
     counter |-> c,
     g       |-> [g \in Goroutines |->
                     [parser |-> on[g], pc |-> "index", left |-> n[g], reg |-> 0,
                      indices |-> <<>>]]]

InitConcurrent ==
    /\ trackCounter = NewParser.trackCounter
    /\ state = NewParser.state
    /\ last = [op |-> "NewParser"]
    /\ flight \in {Starting(on, n, c) :
                      on \in {f \in [Goroutines -> ParserIds] : f[1] = 1},
                      n \in [Goroutines -> 1..MaxCreations],
                      c \in [ParserIds -> 0..MaxTrackCounter]}

\* action["index"] = p.trackCounter
AssignIndex(g) ==
    /\ flight.g[g].pc = "index"
    /\ flight' = [flight EXCEPT !.g[g].indices = Append(@, flight.counter[flight.g[g].parser]),
                              !.g[g].pc = "load"]
    /\ UNCHANGED <<trackCounter, state, last>>

\* p.trackCounter++ : the read
LoadCounter(g) ==
    /\ flight.g[g].pc = "load"
    /\ flight' = [flight EXCEPT !.g[g].reg = flight.counter[flight.g[g].parser],
                              !.g[g].pc = "store"]
    /\ UNCHANGED <<trackCounter, state, last>>

\* StoreCounter on a counter that all Parsers share
StoreCounterGlobal(g) ==
    /\ flight.g[g].pc = "store"
    /\ flight' = [flight EXCEPT !.counter = [p \in ParserIds |-> flight.g[g].reg + 1],
                              !.g[g].reg = 0,
                              !.g[g].left = @ - 1,
                              !.g[g].pc = IF flight.g[g].left = 1 THEN "done" ELSE "index"]
    /\ UNCHANGED <<trackCounter, state, last>>

\* p.trackCounter++ : the write; then the next track() call, or the return
StoreCounter(g) ==
    /\ flight.g[g].pc = "store"
    /\ flight' = [flight EXCEPT !.counter[flight.g[g].parser] = flight.g[g].reg + 1,
                              !.g[g].reg = 0,
                              !.g[g].left = @ - 1,
                              !.g[g].pc = IF flight.g[g].left = 1 THEN "done" ELSE "index"]
    /\ UNCHANGED <<trackCounter, state, last>>

NextConcurrent ==
    \E g \in Goroutines : AssignIndex(g) \/ LoadCounter(g) \/ StoreCounter(g)

SpecConcurrent == InitConcurrent /\ [][NextConcurrent]_vars

(***************************************************************************)
(* What the caller observes of the latest call.                            *)
(***************************************************************************)
Called == last.op = "ParseDSL"

\* ParseDSL returned actions and a nil error
Ok == Called /\ ~last.panicked /\ last.err = Nil

\* ParseDSL returned an error
Failed == Called /\ ~last.panicked /\ last.err # Nil

Ran(dslCode) == Called /\ last.dslCode = dslCode

\* the create_track records of a result, in order, and their indices
CreateRecords(actions) == SelectSeq(actions, LAMBDA a : a.action = "create_track")

Indices(actions) ==
    [j \in 1..Len(CreateRecords(actions)) |-> CreateRecords(actions)[j].index]

\* position of the latest create_track record at or before position j
RECURSIVE OwnCreation(_, _)
OwnCreation(actions, j) ==
    IF j = 0 THEN 0
    ELSE IF actions[j].action = "create_track" THEN j
    ELSE OwnCreation(actions, j - 1)

\* the calls of a program text in the order they are written, each with the
\* record names it can emit
CallKinds ==
    {[prefix |-> PrefixTrack, names |-> {"create_track"}],
     [prefix |-> PrefixNewClip, names |-> {"create_clip_at_bar", "create_clip"}],
     [prefix |-> PrefixAddMidi, names |-> {"add_midi"}],
     [prefix |-> PrefixAddFX, names |-> {"add_track_fx", "add_instrument"}],
     [prefix |-> PrefixAddInstrument, names |-> {"add_track_fx", "add_instrument"}],
     [prefix |-> PrefixSetVolume, names |-> {"set_track_volume"}],
     [prefix |-> PrefixSetPan, names |-> {"set_track_pan"}],
     [prefix |-> PrefixSetMute, names |-> {"set_track_mute"}],
     [prefix |-> PrefixSetSolo, names |-> {"set_track_solo"}],
     [prefix |-> PrefixSetName, names |-> {"set_track_name"}]}

At(text, i, prefix) ==
    /\ i + Len(prefix) - 1 <= Len(text)
    /\ SubSeq(text, i, i + Len(prefix) - 1) = prefix

\* the positions of a text where a call starts
CallPositions(text) ==
    {i \in 1..Len(text) : \E k \in CallKinds : At(text, i, k.prefix)}

\* the calls of a text, in the order of their positions
Calls(text) ==
    LET at == CallPositions(text)
    IN  [j \in 1..Cardinality(at) |->
            LET i == CHOOSE i \in at : Cardinality({h \in at : h <= i}) = j
            IN  CHOOSE k \in CallKinds : At(text, i, k.prefix)]

\* The track list of a snapshot, {"state": {"tracks": [...]}}: empty when
\* the snapshot is nil or has another shape.
TrackList(s) ==
    IF s.t # "map[string]interface{}" THEN <<>>
    ELSE IF "state" \notin DOMAIN s.v THEN <<>>
    ELSE IF s.v.state.t # "map[string]interface{}" THEN <<>>
    ELSE IF "tracks" \notin DOMAIN s.v.state.v THEN <<>>
    ELSE IF s.v.state.v.tracks.t # "[]interface{}" THEN <<>>
    ELSE s.v.state.v.tracks.v

\* the positions of the entries whose selected flag is true
SelectedEntries(s) ==
    {i \in 1..Len(TrackList(s)) :
        LET entry == TrackList(s)[i]
        IN  /\ entry.t = "map[string]interface{}"
            /\ "selected" \in DOMAIN entry.v
            /\ entry.v.selected.t = "bool"
            /\ entry.v.selected.v}

HasSelected(s) == SelectedEntries(s) # {}

\* 0-based index of the first selected entry
FirstSelected(s) ==
    (CHOOSE i \in SelectedEntries(s) : \A h \in SelectedEntries(s) : i <= h) - 1

(***************************************************************************)
(* C1.  A program of several statements that each start with a track       *)
(* creation returns one record per call, in the order the calls are        *)
(* written, and every chained operation's `track` is the index of the      *)
(* create_track record of its own statement.                               *)
(***************************************************************************)
C1_EncounterOrder ==
    (Ok /\ last.dslCode \in MultiStatement) =>
        LET calls == Calls(last.dslCode)
        IN  /\ Len(last.actions) = Len(calls)
            /\ \A j \in 1..Len(calls) : last.actions[j].action \in calls[j].names
            /\ \A j \in 1..Len(last.actions) :
                  last.actions[j].action # "create_track" =>
                      last.actions[j].track
                          = last.actions[OwnCreation(last.actions, j)].index

(***************************************************************************)
(* C2.  A creation with no `index` is assigned the Parser's counter and    *)
(* advances it by one, so successive creations are assigned consecutive    *)
(* indices (0, 1, 2 on a fresh Parser); a creation with `index=k` is       *)
(* assigned k and the next creation without an index is assigned k+1.      *)
(***************************************************************************)
C2_IndexAllocation ==
    /\ \A op \in {<<>>} \cup WellFormedOps :
          \A dslCode \in {TrackCreate \o op, TrackInstrument(TxtSerum) \o op} :
              Ran(dslCode) =>
                  /\ Ok
                  /\ Indices(last.actions) = <<last.counter>>
                  /\ trackCounter = last.counter + 1
    /\ Ran(TwoCreations) =>
          /\ Ok
          /\ Indices(last.actions) = <<last.counter, last.counter + 1>>
          /\ trackCounter = last.counter + 2
    /\ Ran(ThreeCreations) =>
          /\ Ok
          /\ Indices(last.actions) = <<last.counter, last.counter + 1, last.counter + 2>>
          /\ trackCounter = last.counter + 3
    /\ \A k \in {-1, 1} :
          /\ Ran(TrackIndex(k)) =>
                Ok /\ Indices(last.actions) = <<k>> /\ trackCounter = k + 1
          /\ Ran(IndexThenCreation(k, SetMute(BooleanTrue))) =>
                Ok /\ Indices(last.actions) = <<k, k + 1>> /\ trackCounter = k + 2

\* three creations on a fresh Parser were assigned 0, 1, 2
C2_Witness ==
    /\ Ran(ThreeCreations)
    /\ last.counter = 0
    /\ Indices(last.actions) = <<0, 1, 2>>
    /\ trackCounter = 3

(***************************************************************************)
(* C3.  A reference track(id=N) or track(N) emits no record and sets the   *)
(* current track to N-1: an operation chained after it is emitted with     *)
(* `track` = N-1, whatever the snapshot contains.                          *)
(***************************************************************************)
ReferenceSetsTrack(N) ==
    /\ \A ref \in {TrackId(N), TrackBare(N)} :
          Ran(ref) =>
              /\ Failed
              /\ last.err = Errorf("no actions found in DSL code")
              /\ trackCounter = last.counter
    /\ Ran(TrackId(N) \o NewClipBarLen(5, 8)) =>
          /\ Ok
          /\ last.actions = <<[action |-> "create_clip_at_bar", track |-> N - 1,
                               bar |-> 5, length_bars |-> 8]>>
    /\ Ran(TrackBare(N) \o SetVolume(DecNeg30)) =>
          /\ Ok
          /\ last.actions = <<[action |-> "set_track_volume", track |-> N - 1,
                               volume_db |-> DecNeg30.val]>>

\* C3 as stated: for every integer N
C3_EveryReference == \A N \in RefNums : ReferenceSetsTrack(N)

\* C3 for the references to a track that can exist: N >= 1
C3_PositiveReference == \A N \in RefNums : N >= 1 => ReferenceSetsTrack(N)

\* a clip chained after track(id=2) is on track 1 although the snapshot's
\* selected track is another one
C3_Witness ==
    /\ Ran(TrackId(2) \o NewClipBarLen(5, 8))
    /\ Ok
    /\ last.actions[1].track = 1
    /\ HasSelected(state)
    /\ FirstSelected(state) # 1

(***************************************************************************)
(* C4.  track(selected=true) sets the current track to the index of the    *)
(* first entry of the snapshot's track list whose selected flag is true    *)
(* and emits no record; when no entry is selected, or no snapshot was set, *)
(* ParseDSL returns an error.                                              *)
(***************************************************************************)
C4_SelectedTrack ==
    /\ Ran(TrackSelected) =>
          /\ Failed
          /\ last.err = IF HasSelected(state)
                        THEN Errorf("no actions found in DSL code")
                        ELSE Errorf("no selected track found in state")
    /\ Ran(TrackSelected \o NewClipBar(3)) =>
          IF HasSelected(state)
          THEN /\ Ok
               /\ last.actions = <<[action |-> "create_clip_at_bar",
                                    track |-> FirstSelected(state),
                                    bar |-> 3, length_bars |-> DefaultLengthBars]>>
          ELSE Failed /\ last.err = Errorf("no selected track found in state")
    /\ Ran(TrackSelected \o SetMute(BooleanTrue)) =>
          IF HasSelected(state)
          THEN /\ Ok
               /\ last.actions = <<[action |-> "set_track_mute",
                                    track |-> FirstSelected(state), mute |-> TRUE]>>
          ELSE Failed /\ last.err = Errorf("no selected track found in state")

\* the snapshot has two selected entries, after entries that are not
\* selected, and the mute was emitted for the first of the two
C4_Witness ==
    /\ Ran(TrackSelected \o SetMute(BooleanTrue))
    /\ Cardinality(SelectedEntries(state)) = 2
    /\ Ok
    /\ last.actions[1].track = 2

\* no snapshot was set, and the call returned the error
C4_WitnessNone ==
    /\ Ran(TrackSelected \o SetMute(BooleanTrue))
    /\ state = GoNil
    /\ last.err = Errorf("no selected track found in state")

(***************************************************************************)
(* C5.  After SetState with a state of the shape of the README's usage, a  *)
(* map whose top-level `tracks` list holds a descriptor with selected =    *)
(* true, track(selected=true) resolves to that descriptor's index.         *)
(***************************************************************************)
ReadmeState == TopLevel(<<Track(TRUE)>>)

C5_ReadmeState ==
    (state = ReadmeState /\ Ran(TrackSelected \o SetMute(BooleanTrue))) =>
        /\ Ok
        /\ last.actions = <<[action |-> "set_track_mute", track |-> 0, mute |-> TRUE]>>

(***************************************************************************)
(* C6.  For every non-track operation: when the current track is none and *)
(* the snapshot has a selected track, the operation falls back to the      *)
(* first selected track and emits its record with that index.              *)
(***************************************************************************)
\* programs that reach op with no current track: op leads the program, or
\* follows a reference that resolves to no track
NoTrack(op) == {op, TrackId(0) \o op}

NoTrackContext ==
    {"no track context for midi call", "no track context for FX call",
     "no track context for volume call", "no track context for pan call",
     "no track context for mute call", "no track context for solo call",
     "no track context for name call"}

FellBack ==
    /\ Ok
    /\ Len(last.actions) = 1
    /\ last.actions[1].track = FirstSelected(state)

\* C6 as stated: every operation falls back
C6_EveryOperationFallsBack ==
    \A op \in WellFormedOps : \A dslCode \in NoTrack(op) :
        (Ran(dslCode) /\ HasSelected(state)) => FellBack

\* C6 for the code: newClip falls back, every other operation fails
C6_OnlyNewClipFallsBack ==
    \A op \in WellFormedOps : \A dslCode \in NoTrack(op) :
        (Ran(dslCode) /\ HasSelected(state)) =>
            IF HasPrefix(op, PrefixNewClip)
            THEN FellBack
            ELSE Failed /\ Len(last.err) = 2 /\ last.err[2] \in NoTrackContext

\* a clip after track(id=0) was emitted for the selected track
C6_Witness ==
    /\ Ran(TrackId(0) \o NewClipBarLen(5, 8))
    /\ HasSelected(state)
    /\ Ok
    /\ last.actions = <<[action |-> "create_clip_at_bar", track |-> 2,
                         bar |-> 5, length_bars |-> 8]>>

(***************************************************************************)
(* C7.  A program whose first call is not a track call makes ParseDSL      *)
(* return an error, for every snapshot.                                    *)
(***************************************************************************)
\* C7 as stated
C7_LeadingOperationFails == \A op \in WellFormedOps : Ran(op) => Failed

\* C7 for the code: the error is returned unless the call is newClip and
\* the snapshot has a selected track, which the clip is then emitted for
C7_LeadingOperation ==
    \A op \in WellFormedOps :
        Ran(op) =>
            IF HasPrefix(op, PrefixNewClip) /\ HasSelected(state)
            THEN Ok /\ last.actions = <<[action |-> "create_clip_at_bar",
                                         track |-> FirstSelected(state),
                                         bar |-> 5, length_bars |-> 8]>>
            ELSE Failed /\ trackCounter = last.counter

\* a leading addMidi failed although the snapshot has a selected track
C7_Witness == Ran(AddMidi) /\ HasSelected(state) /\ Failed

(***************************************************************************)
(* C8.  No record is emitted without a resolved track: when the current    *)
(* track is absent (none or negative) and the snapshot has no selected     *)
(* track, every builder fails, and every record other than create_track of *)
(* a successful output has a `track` that is >= 0.                         *)
(***************************************************************************)
C8_ResolvedTrack ==
    /\ Ok => \A j \in 1..Len(last.actions) :
                last.actions[j].action # "create_track" => last.actions[j].track >= 0
    /\ \A op \in WellFormedOps : \A dslCode \in NoTrack(op) :
          (Ran(dslCode) /\ ~HasSelected(state)) => Failed
    /\ \A dslCode \in {TrackIndex(-1) \o NewClipBar(3), TrackIndex(-1) \o SetPan(Dec05)} :
          (Ran(dslCode) /\ ~HasSelected(state)) => Failed

\* a clip after track(id=0) failed: the snapshot's tracks are not selected
C8_Witness ==
    /\ Ran(TrackId(0) \o NewClipBarLen(5, 8))
    /\ state = Wrapped(<<Track(FALSE), Track(FALSE)>>)
    /\ Failed

(***************************************************************************)
(* C9.  With a resolved track t: newClip(bar=b[, length_bars=n]) emits     *)
(* {create_clip_at_bar, track t, bar b, length_bars n, or 4}; newClip(     *)
(* start=s[, length=l]) and newClip(position=s[, length=l]) emit           *)
(* {create_clip, track t, position s, length l, or 4.0}; newClip with none *)
(* of bar, start, position fails.                                          *)
(***************************************************************************)
\* the record after create_track of a successful two-record output
Clip == IF Ok /\ Len(last.actions) = 2 THEN last.actions[2] ELSE <<>>

C9_NewClip ==
    /\ Ran(TrackCreate \o NewClipBar(3)) =>
          Clip = [action |-> "create_clip_at_bar", track |-> last.counter,
                          bar |-> 3, length_bars |-> 4]
    /\ Ran(TrackCreate \o NewClipBarLen(5, 8)) =>
          Clip = [action |-> "create_clip_at_bar", track |-> last.counter,
                          bar |-> 5, length_bars |-> 8]
    /\ \A key \in {KeyStart, KeyPosition} : \A s \in {Dec15, Dec20} :
          /\ Ran(TrackCreate \o NewClipAt(key, s)) =>
                Clip = [action |-> "create_clip", track |-> last.counter,
                                position |-> s.val, length |-> [mant |-> 4, scale |-> 0]]
          /\ \A l \in {Dec15, Dec20} :
                Ran(TrackCreate \o NewClipAtLen(key, s, l)) =>
                    Clip = [action |-> "create_clip", track |-> last.counter,
                                    position |-> s.val, length |-> l.val]
    /\ \A none \in {Call(PrefixNewClip, <<>>),
                    Call(PrefixNewClip, Arg(KeyLengthBars, Itoa(4)))} :
          Ran(TrackCreate \o none) =>
              /\ Failed
              /\ last.err = <<"failed to parse clip call",
                              "clip call must specify bar or start/position">>

\* a clip by position, with no length, got the length 4.0
C9_Witness ==
    /\ Ran(TrackCreate \o NewClipAt(KeyPosition, Dec20))
    /\ Ok
    /\ last.actions[2].position = [mant |-> 2, scale |-> 0]
    /\ last.actions[2].length = [mant |-> 4, scale |-> 0]

(***************************************************************************)
(* C10.  For every operation, omitting its required parameter makes        *)
(* ParseDSL fail.                                                          *)
(***************************************************************************)
C10_MissingParameterFails == \A op \in BareOps : Ran(TrackCreate \o op) => Failed

(***************************************************************************)
(* C11.  When mutually exclusive parameter forms are both given, newClip   *)
(* with bar and start/position, addFX/addInstrument with fxname and        *)
(* instrument, ParseDSL returns an error.                                  *)
(***************************************************************************)
BothForms ==
    {NewClipBoth(KeyStart, Dec15, 3), NewClipBoth(KeyPosition, Dec20, 3),
     FxBoth(PrefixAddFX), FxBoth(PrefixAddInstrument)}

\* C11 as stated
C11_BothFormsFail == \A op \in BothForms : Ran(TrackCreate \o op) => Failed

\* C11 for the code: one form is chosen, bar before start/position and
\* fxname before instrument, and the other is ignored
C11_FirstFormChosen ==
    /\ \A op \in {NewClipBoth(KeyStart, Dec15, 3), NewClipBoth(KeyPosition, Dec20, 3)} :
          Ran(TrackCreate \o op) =>
              Clip = [action |-> "create_clip_at_bar", track |-> last.counter,
                      bar |-> 3, length_bars |-> 4]
    /\ \A prefix \in {PrefixAddFX, PrefixAddInstrument} :
          Ran(TrackCreate \o FxBoth(prefix)) =>
              Clip = [action |-> "add_track_fx", track |-> last.counter,
                      fxname |-> TxtReaEQ]

\* addInstrument with an instrument and then an fxname added the fxname
C11_Witness ==
    /\ Ran(TrackCreate \o FxBoth(PrefixAddInstrument))
    /\ Ok
    /\ last.actions[2].action = "add_track_fx"
    /\ last.actions[2].fxname = TxtReaEQ

(***************************************************************************)
(* C12.  addMidi(notes=[...]) on a resolved track emits an add_midi record *)
(* whose notes hold one note object (pitch, velocity, start, duration) per *)
(* element of the array, in the given order.                               *)
(***************************************************************************)
C12_NotesPayload ==
    Ran(TrackCreate \o AddMidiOneNote) =>
        /\ Ok
        /\ Len(last.actions) = 2
        /\ last.actions[2].action = "add_midi"
        /\ last.actions[2].track = last.counter
        /\ last.actions[2].notes
              = <<[pitch |-> 60, velocity |-> 100, start |-> 0, duration |-> 1]>>

\* the table of the builders after newClip and addMidi: a call and the
\* record it is to emit on track t
BuilderTable(t) ==
    {[op |-> AddFX(TxtReaEQ),
      rec |-> [action |-> "add_track_fx", track |-> t, fxname |-> TxtReaEQ]],
     [op |-> FxCall(PrefixAddInstrument, KeyFxname, TxtReaEQ),
      rec |-> [action |-> "add_track_fx", track |-> t, fxname |-> TxtReaEQ]],
     [op |-> AddInstrument(TxtSerum),
      rec |-> [action |-> "add_instrument", track |-> t, fxname |-> TxtSerum]],
     [op |-> FxCall(PrefixAddFX, KeyInstrument, TxtSerum),
      rec |-> [action |-> "add_instrument", track |-> t, fxname |-> TxtSerum]],
     [op |-> SetVolume(DecNeg30),
      rec |-> [action |-> "set_track_volume", track |-> t, volume_db |-> DecNeg30.val]],
     [op |-> SetPan(Dec05),
      rec |-> [action |-> "set_track_pan", track |-> t, pan |-> Dec05.val]],
     [op |-> SetMute(BooleanTrue),
      rec |-> [action |-> "set_track_mute", track |-> t, mute |-> TRUE]],
     [op |-> SetMute(TxtFalse),
      rec |-> [action |-> "set_track_mute", track |-> t, mute |-> FALSE]],
     [op |-> SetSolo(BooleanTrue),
      rec |-> [action |-> "set_track_solo", track |-> t, solo |-> TRUE]],
     [op |-> SetSolo(TxtFalse),
      rec |-> [action |-> "set_track_solo", track |-> t, solo |-> FALSE]],
     [op |-> SetName(TxtBass),
      rec |-> [action |-> "set_track_name", track |-> t, name |-> TxtBass]]}

(***************************************************************************)
(* C13.  With a resolved track t and a well-formed required parameter,     *)
(* each builder after newClip and addMidi emits exactly one record, equal  *)
(* to its table entry: addFX/addInstrument with fxname give add_track_fx   *)
(* with that fxname, with instrument give add_instrument whose fxname is   *)
(* the instrument text; setVolume and setPan give the number; setMute and  *)
(* setSolo give the boolean of the literal; setName gives the text.  The   *)
(* track is resolved by a creation (t is the created index) or by a        *)
(* reference to track N (t = N - 1).                                       *)
(***************************************************************************)
C13_BuilderTable ==
    /\ Called =>
          \A e \in BuilderTable(last.counter) :
              Ran(TrackCreate \o e.op) =>
                  /\ Ok
                  /\ last.actions = <<[action |-> "create_track", index |-> last.counter],
                                      e.rec>>
    /\ \A n \in 1..MaxRef :
          Ran(TrackBare(n) \o SetVolume(DecNeg30)) =>
              /\ Ok
              /\ last.actions = <<[action |-> "set_track_volume", track |-> n - 1,
                                   volume_db |-> DecNeg30.val]>>

C13_Witness ==
    /\ Ran(TrackCreate \o SetSolo(TxtFalse))
    /\ Ok
    /\ last.counter = 2
    /\ last.actions[2] = [action |-> "set_track_solo", track |-> 2, solo |-> FALSE]

\* the records and the error ParseDSL returned, <<>> and Nil after a panic
Outcome == [actions |-> last.actions, err |-> last.err]

\* track() alone: one create_track record with the next index
PlainCreation == [actions |-> <<[action |-> "create_track", index |-> last.counter]>>,
                  err |-> Nil]

(***************************************************************************)
(* C14.  A numeric parameter whose text is not a number is treated as if   *)
(* the parameter were absent, and never aborts the parse by itself:        *)
(* setVolume(volume_db=abc) ends as setVolume() does, in the error of the  *)
(* missing parameter; newClip(bar=3, length_bars=x) ends as newClip(bar=3) *)
(* does, with the default length of 4 bars; track(index=x) ends as track() *)
(* does, with one create_track record carrying the next index.             *)
(***************************************************************************)
C14_MalformedAsAbsent ==
    Called =>
        /\ ~last.panicked
        /\ Ran(TrackCreate \o Call(PrefixSetVolume, <<>>))
              => last.err = Wrap("failed to parse volume call",
                                 Errorf("volume call must specify volume_db"))
        /\ Ran(TrackCreate \o MalformedVolume)
              => last.err = Wrap("failed to parse volume call",
                                 Errorf("volume call must specify volume_db"))
        /\ \A op \in {NewClipBar(3), MalformedLengthBars} :
              Ran(TrackCreate \o op)
                  => Clip = [action |-> "create_clip_at_bar", track |-> last.counter,
                             bar |-> 3, length_bars |-> DefaultLengthBars]
        /\ \A dslCode \in {TrackCreate, MalformedIndex} :
              Ran(dslCode) => Outcome = PlainCreation

(***************************************************************************)
(* C15.  Every ParseDSL call ends in exactly one of two shapes: an error   *)
(* with no record at all, even when earlier segments were built, or no     *)
(* error with a non-empty list of records.  Empty input, whitespace-only   *)
(* input and a program that produces no record (a reference to a track     *)
(* with no operation) return an error.                                     *)
(***************************************************************************)
C15_TwoShapes ==
    Called =>
        /\ \/ Failed /\ last.actions = <<>>
           \/ Ok /\ last.actions # <<>>
        /\ last.dslCode \in {<<>>, <<" ">>} \cup References => Failed

(***************************************************************************)
(* C16.  A program with an unmatched parenthesis or an unmatched double    *)
(* quote, track(instrument="Serum" or track(instrument="Serum), makes      *)
(* ParseDSL return an error and emits no record.                           *)
(***************************************************************************)
C16_UnmatchedFails ==
    \A dslCode \in Unmatched : Ran(dslCode) => Failed /\ last.actions = <<>>

(***************************************************************************)
(* C17.  Commas, = signs and parentheses inside a double-quoted string are *)
(* literal content for the segmenter and for the extractor:                *)
(* track(instrument="A, B (test)") is one segment and yields one           *)
(* create_track record whose instrument is exactly the quoted text, and a  *)
(* call chained after it is split off as a segment of its own, which       *)
(* yields its own record on the created track.                             *)
(***************************************************************************)
C17_QuotedStringSafety ==
    Called =>
        \A text \in QuotedTexts :
            /\ Ran(TrackInstrument(text)) =>
                  /\ splitMethodChains(last.dslCode) = <<TrackInstrument(text)>>
                  /\ Ok
                  /\ last.actions = <<[action |-> "create_track", index |-> last.counter,
                                       instrument |-> text]>>
            /\ Ran(TrackInstrument(text) \o SetVolume(DecNeg30)) =>
                  /\ splitMethodChains(last.dslCode)
                        = <<TrackInstrument(text), SetVolume(DecNeg30)>>
                  /\ Ok
                  /\ last.actions = <<[action |-> "create_track", index |-> last.counter,
                                       instrument |-> text],
                                      [action |-> "set_track_volume", track |-> last.counter,
                                       volume_db |-> DecNeg30.val]>>

C17_Witness ==
    /\ Ran(TrackInstrument(TxtABTest) \o SetVolume(DecNeg30))
    /\ Ok
    /\ Len(last.actions) = 2
    /\ last.actions[1].instrument = TxtABTest
    /\ last.actions[2].action = "set_track_volume"

\* the track calls of a program: its segments that start with track(
TrackCalls(dslCode) ==
    LET parts == splitMethodChains(TrimSpace(dslCode))
    IN  {j \in 1..Len(parts) : HasPrefix(TrimSpace(parts[j]), PrefixTrack)}

\* the text between the parentheses of a call is a whole number
BareNumber(call) ==
    /\ Index(call, "(") >= 0
    /\ LastIndex(call, ")") > Index(call, "(")
    /\ Atoi(TrimSpace(Slice(call, Index(call, "(") + 1, LastIndex(call, ")")))).ok

\* the call carries an id parameter, a bare number or a selected parameter
Carries(call, params) ==
    Has(params, KeyId) \/ Has(params, KeySelected) \/ BareNumber(call)

\* the call refers to a track: its id is a whole number, or it has no id
\* and selected is true or True, or it is a bare whole number
Refers(call, params) ==
    \/ Has(params, KeyId) /\ Atoi(params[KeyId]).ok
    \/ ~Has(params, KeyId) /\ Has(params, KeySelected)
          /\ params[KeySelected] \in {BooleanTrue, CapitalTrue}
    \/ BareNumber(call)

CarryingCall(part) == Carries(part, extractParams(part))
ReferringCall(part) == Refers(part, extractParams(part))

(***************************************************************************)
(* C18.  In every successful parse the number of create_track records      *)
(* equals the number of track calls of the program that carry neither an   *)
(* id parameter, nor a bare numeric argument, nor a selected parameter.     *)
(***************************************************************************)
C18_CreationCount ==
    Ok =>
        Len(CreateRecords(last.actions))
            = Cardinality({j \in TrackCalls(last.dslCode) :
                  ~CarryingCall(TrimSpace(splitMethodChains(TrimSpace(last.dslCode))[j]))})

\* C18 as the code has it: in every successful parse the number of
\* create_track records equals the number of track calls that do not refer
\* to a track, where a call refers to a track when its id is a whole
\* number, when it has no id and its selected is true or True, or when its
\* only argument is a bare whole number.  A call whose id is not a number,
\* or whose selected is anything else, creates a track.
C18_CreationCountOfNonReferences ==
    Ok =>
        Len(CreateRecords(last.actions))
            = Cardinality({j \in TrackCalls(last.dslCode) :
                  ~ReferringCall(TrimSpace(splitMethodChains(TrimSpace(last.dslCode))[j]))})

C18_Witness ==
    /\ Ran(TrackSelectedFalse \o SetMute(BooleanTrue))
    /\ Ok
    /\ HasSelected(state)
    /\ Len(CreateRecords(last.actions)) = 1
    /\ last.actions[2].track = last.counter

(***************************************************************************)
(* C19.  The Parser's track counter never decreases: after the creations   *)
(* of a parse, with or without an explicit index, the counter is not below *)
(* its value before the parse and is past every index the parse assigned,  *)
(* and a creation with no explicit index (the last call of track() track() *)
(* track(index=0) track()) is assigned an index that no earlier            *)
(* create_track record carries.                                            *)
(***************************************************************************)
C19_CounterNeverDecreases ==
    Called =>
        /\ trackCounter >= last.counter
        /\ \A j \in 1..Len(Indices(last.actions)) : trackCounter > Indices(last.actions)[j]
        /\ Ran(CreationsAroundIndex) /\ Ok =>
              \A j \in 1..3 : Indices(last.actions)[4] # Indices(last.actions)[j]

\* what a fresh Parser with the same snapshot returns for the program of
\* the latest call
OnFreshParser ==
    ParseDSL([trackCounter |-> NewParser.trackCounter, state |-> state], last.dslCode)

SameAs(ret) ==
    last.actions = ret.actions /\ last.err = ret.err /\ last.panicked = ret.panicked

\* a record with its index, or its track, raised by c
Raised(rec, c) ==
    IF HasField(rec, "index") THEN [rec EXCEPT !.index = @ + c]
    ELSE [rec EXCEPT !.track = @ + c]

RaisedFrom(ret, c) ==
    /\ last.err = ret.err
    /\ last.actions = [j \in 1..Len(ret.actions) |-> Raised(ret.actions[j], c)]

HasCreation(dslCode) ==
    \E j \in TrackCalls(dslCode) :
        ~ReferringCall(TrimSpace(splitMethodChains(TrimSpace(dslCode))[j]))

\* a step that changes the counter is a ParseDSL call on a program with a
\* track-creation call, and a lone track() is assigned the counter that
\* the step before it left
CounterStep ==
    /\ trackCounter' # trackCounter =>
          last'.op = "ParseDSL" /\ HasCreation(last'.dslCode)
    /\ (last'.op = "ParseDSL" /\ last'.dslCode = TrackCreate) =>
          /\ last'.actions = <<[action |-> "create_track", index |-> trackCounter]>>
          /\ trackCounter' = trackCounter + 1

(***************************************************************************)
(* C21.  Across any sequence of SetState and ParseDSL calls on one Parser, *)
(* the track counter changes only when a track-creation call is processed: *)
(* SetState, track references (id, bare number, selected=true) and every   *)
(* chained operation leave it unchanged, and its value carries over from   *)
(* one ParseDSL call to the next.                                          *)
(***************************************************************************)
C21_CounterFrame == [][CounterStep]_vars

\* a reference with a chained operation, and then SetState, have left a
\* counter of 2 as it was
C21_Witness ==
    /\ Ran(TrackBare(1) \o SetVolume(DecNeg30))
    /\ Ok
    /\ last.counter = 2
    /\ trackCounter = 2

\* the goroutine has returned from ParseDSL
Returned(g) == flight.g[g].pc = "done"

\* the two goroutines call ParseDSL on one Parser
Shared == flight.g[1].parser = flight.g[2].parser

\* the number of track() calls of goroutine g's program
Creating(g) == Len(flight.g[g].indices) + flight.g[g].left

(***************************************************************************)
(* C22.  Two ParseDSL calls interleaved on one Parser with no              *)
(* synchronization can interfere through the track counter, whose read and *)
(* increment are separate steps: two creations with no explicit index can  *)
(* both be assigned the same index (C22_Witness).  Two parses on           *)
(* independent Parsers never affect each other under any interleaving:     *)
(* each returns the consecutive indices from its own Parser's counter and  *)
(* leaves that counter advanced by the number of its creations.            *)
(***************************************************************************)
C22_IndependentParsers ==
    ~Shared =>
        \A g \in Goroutines :
            /\ \A j \in 1..Len(flight.g[g].indices) :
                  flight.g[g].indices[j] = flight.start[flight.g[g].parser] + j - 1
            /\ Returned(g) =>
                  flight.counter[flight.g[g].parser]
                      = flight.start[flight.g[g].parser] + Creating(g)

\* on one Parser both calls have returned, each with one create_track
\* record, and the two records carry the same index; one increment is lost
C22_Witness ==
    /\ Shared
    /\ \A g \in Goroutines : Returned(g) /\ Len(flight.g[g].indices) = 1
    /\ flight.g[1].indices = flight.g[2].indices
    /\ flight.counter[1] = flight.start[1] + 1

\* the segments of the program of the latest call
Segments == splitMethodChains(last.dslCode)

\* the texts of a list, one after the other
RECURSIVE Concat(_)
Concat(texts) == IF texts = <<>> THEN <<>> ELSE Head(texts) \o Concat(Tail(texts))

\* the text ends with a closing parenthesis
Closed(text) == text # <<>> /\ text[Len(text)] = ")"

KeyNotes == <<"n","o","t","e","s">>

\* the text after notes= : the bracketed array
NotesArray(text) == SubSeq(text, Len(KeyNotes) + 2, Len(text))

(***************************************************************************)
(* C24.  The parameter extractor treats the commas and the = signs inside  *)
(* nested brackets or braces as content, not as delimiters: for            *)
(* .addMidi(notes=[{pitch=60, velocity=100, start=0, duration=1}])         *)
(* extractParams returns a mapping with the key notes whose raw value is   *)
(* the whole bracketed text.                                               *)
(***************************************************************************)
C24_BracketsAreContent ==
    Ran(TrackCreate \o AddMidiOneNote) =>
        /\ Segments[2] = AddMidiOneNote
        /\ Has(extractParams(Segments[2]), KeyNotes)
        /\ extractParams(Segments[2])[KeyNotes] = NotesArray(TxtOneNote)

\* instrument -> Serum, name -> Bass
SerumBass == (KeyInstrument :> TxtSerum) @@ (KeyName :> TxtBass)

(***************************************************************************)
(* C25.  Whitespace around = and , in a parameter list is insignificant:   *)
(* extractParams on track( instrument = "Serum" , name = "Bass" ) returns  *)
(* the mapping it returns on track(instrument="Serum", name="Bass"), that  *)
(* is instrument -> Serum and name -> Bass with no added whitespace in the *)
(* keys or the values, and so the create_track records of the two calls    *)
(* are the same.                                                           *)
(***************************************************************************)
C25_WhitespaceInsignificant ==
    \A dslCode \in {TrackTight, TrackSpaced} :
        Ran(dslCode) =>
            /\ extractParams(last.dslCode) = SerumBass
            /\ Ok
            /\ last.actions = <<[action |-> "create_track", index |-> last.counter,
                                 instrument |-> TxtSerum, name |-> TxtBass]>>

(***************************************************************************)
(* C26.  For every input ParseDSL returns normally, with records or with   *)
(* an error: no input makes it abort, a creation whose index is not an     *)
(* integer, track(index=1.5) or track(index=abc), included.                *)
(***************************************************************************)
C26_ReturnsNormally ==
    Called =>
        /\ ~last.panicked
        /\ last.dslCode \in NonIntegerIndex => Ok \/ Failed

C28_FallbackSetsNoContext ==
    HasSelected(state) =>
        /\ Ran(NewClipBar(1)) =>
              /\ Ok
              /\ last.actions = <<[action |-> "create_clip_at_bar",
                                   track |-> FirstSelected(state), bar |-> 1,
                                   length_bars |-> DefaultLengthBars]>>
        /\ Ran(ClipThenVolume) =>
              /\ Failed
              /\ last.actions = <<>>
              /\ last.err = Wrap("failed to parse volume call",
                                 Errorf("no track context for volume call"))

C28_Witness ==
    /\ Ran(ClipThenVolume)
    /\ HasSelected(state)
    /\ FirstSelected(state) = 2
    /\ Failed
    /\ last.err[2] = "no track context for volume call"

=============================================================================
